---- MODULE Spec2Model ----
(***************************************************************************)
(* MutationCache (src/src/core/mutationCache.ts) and MutationObserver      *)
(* (src/unnamed/part_000) of react-query, with the collaborators they use  *)
(* (Mutation, notifyManager, Subscribable, hashMutationKeyByOptions,       *)
(* QueryClient.defaultMutationOptions) modelled from their contracts.      *)
(***************************************************************************)
EXTENDS Integers, Sequences, FiniteSets, TLC

\* ------------------------------------------------------------------ bounds

MaxMutations == 2
MaxListeners == 2
MaxChains == 2

Observers == {"o1", "o2"}
MutationIds == 1..MaxMutations

\* `undefined` of the source: an absent Mutation, hash or callback bundle, an
\* absent option field (options.shareable is "true", "false" or undefined),
\* an absent key.
None == 0
Undef == "undefined"
NoKey == <<>>
Keys == {<<1>>, <<1, 2>>}
KeyAtoms == {1, 2}

VARIABLES
  mutations,     \* MutationCache.mutations: ids in insertion order
  mutationsMap,  \* MutationCache.mutationsMap: hash -> id, None when absent
  mutationId,    \* MutationCache.mutationId
  mutation,      \* the Mutation objects ever built, by id
  observer,      \* the MutationObserver objects
  chains,        \* the promise chains of resumePausedMutations() calls: the
                 \* links still to run, the continue() awaited, the outcome
  last,          \* the operation that ran last and how it ended
  calls,         \* what the last operation invoked, in order
  fired          \* history: which callbacks of each observer's current bundle ran

vars == <<mutations, mutationsMap, mutationId, mutation, observer, chains,
          last, calls, fired>>

\* ------------------------------------------------------------- collaborators

RECURSIVE HashMutationKey(_)
\* hashMutationKeyByOptions: deterministic, sensitive to the order of the key.
HashMutationKey(key) ==
  IF key = NoKey THEN 0
  ELSE Head(key) + (Cardinality(KeyAtoms) + 1) * HashMutationKey(Tail(key))

Hashes == {HashMutationKey(k) : k \in Keys}

\* QueryClient.defaultMutationOptions: the client sets no mutation defaults,
\* so the merge keeps the passed fields; missing options are all undefined.
DefaultMutationOptions(options) ==
  [shareable |-> options.shareable, mutationKey |-> options.mutationKey]

\* JS truthiness of options.shareable
Truthy(v) == v = "true"

\* getDefaultState()
DefaultState == [status |-> "idle", isPaused |-> FALSE]

\* MutationObserver.updateResult: the derived view of a Mutation state
DerivedResult(state) ==
  [status |-> state.status, isPaused |-> state.isPaused,
   isLoading |-> state.status = "loading",
   isSuccess |-> state.status = "success",
   isError |-> state.status = "error",
   isIdle |-> state.status = "idle"]

NoMutation ==
  [state |-> DefaultState, mutationHash |-> None, mutationKey |-> NoKey,
   observers |-> <<>>, builtBy |-> "-"]

NoOptions == [shareable |-> Undef, mutationKey |-> NoKey]

NoObserver ==
  [constructed |-> FALSE, options |-> NoOptions, currentMutation |-> None,
   mutateOptions |-> None, listeners |-> 0,
   currentResult |-> DerivedResult(DefaultState)]

\* a log entry: an invocation made by the operation that ran last
Call(ev, obs, arg, depth) == [ev |-> ev, obs |-> obs, arg |-> arg, depth |-> depth]

\* notifyManager.batch: the callback runs one level deeper; leaving the
\* outermost batch flushes.
Batch(depth, owner, inner) ==
  inner \o (IF depth = 0 THEN <<Call("flush", owner, 0, 0)>> ELSE <<>>)

\* ------------------------------------------------------------------ Mutation

Range(seq) == {seq[i] : i \in 1..Len(seq)}

\* Mutation.addObserver: the observer joins the set once
AddObserver(muts, m, o) ==
  IF m = None \/ o \in Range(muts[m].observers) THEN muts
  ELSE [muts EXCEPT ![m].observers = Append(@, o)]

\* Mutation.removeObserver
RemoveObserver(muts, m, o) ==
  IF m = None THEN muts
  ELSE [muts EXCEPT ![m].observers = SelectSeq(@, LAMBDA x : x # o)]

\* Mutation's reducer: the state after an event of the given type
Reducer(state, type) ==
  CASE type = "loading" -> [status |-> "loading", isPaused |-> FALSE]
    [] type = "pause" -> [state EXCEPT !.isPaused = TRUE]
    [] type = "continue" -> [state EXCEPT !.isPaused = FALSE]
    [] type = "success" -> [status |-> "success", isPaused |-> FALSE]
    [] type = "error" -> [status |-> "error", isPaused |-> FALSE]

\* ---------------------------------------------------------- MutationObserver

UpdateResult(ob, muts) ==
  [ob EXCEPT !.currentResult =
     DerivedResult(IF ob.currentMutation # None
                   THEN muts[ob.currentMutation].state
                   ELSE DefaultState)]

NotifyOptions(type) ==
  [listeners |-> TRUE, onSuccess |-> type = "success", onError |-> type = "error"]

\* mutant: reset() asks for the success callbacks as well
ListenersAndSuccess == [listeners |-> TRUE, onSuccess |-> TRUE, onError |-> FALSE]

ListenersOnly == [listeners |-> TRUE, onSuccess |-> FALSE, onError |-> FALSE]

\* mutant: the generic listeners run before the call-scoped callbacks
NotifyListenersFirst(o, ob, options, depth) ==
  LET d == depth + 1
      bundle == ob.mutateOptions
      scoped ==
        IF bundle # None
        THEN IF options.onSuccess
             THEN <<Call("onSuccess", o, bundle, d), Call("onSettled", o, bundle, d)>>
             ELSE IF options.onError
                  THEN <<Call("onError", o, bundle, d), Call("onSettled", o, bundle, d)>>
                  ELSE <<>>
        ELSE <<>>
      generic ==
        IF options.listeners
        THEN [i \in 1..ob.listeners |-> Call("listener", o, i, d)]
        ELSE <<>>
  IN Batch(depth, "observer", generic \o scoped)

\* MutationObserver.notify: the invocations it makes, inside one batch
Notify(o, ob, options, depth) ==
  LET d == depth + 1
      bundle == ob.mutateOptions
      scoped ==
        IF bundle # None
        THEN IF options.onSuccess
             THEN <<Call("onSuccess", o, bundle, d), Call("onSettled", o, bundle, d)>>
             ELSE IF options.onError
                  THEN <<Call("onError", o, bundle, d), Call("onSettled", o, bundle, d)>>
                  ELSE <<>>
        ELSE <<>>
      generic ==
        IF options.listeners
        THEN [i \in 1..ob.listeners |-> Call("listener", o, i, d)]
        ELSE <<>>
  IN Batch(depth, "observer", scoped \o generic)

\* MutationObserver.onMutationUpdate, as the state of the observer afterwards
OnMutationUpdate(ob, muts) == UpdateResult(ob, muts)

\* MutationObserver.onMutationUpdate, as the invocations it makes
OnMutationUpdateCalls(o, ob, muts, type, depth) ==
  Notify(o, OnMutationUpdate(ob, muts), NotifyOptions(type), depth)

RECURSIVE Broadcast(_, _, _, _, _)
\* Mutation.dispatch, second half: every current observer gets the event, in
\* the order of the observers array.
Broadcast(obsSeq, obs, muts, type, depth) ==
  IF obsSeq = <<>> THEN <<>>
  ELSE OnMutationUpdateCalls(Head(obsSeq), obs[Head(obsSeq)], muts, type, depth)
         \o Broadcast(Tail(obsSeq), obs, muts, type, depth)

\* the observers after an event of mutation m was delivered
Delivered(obs, muts, m) ==
  [o \in Observers |->
     IF o \in Range(muts[m].observers) THEN OnMutationUpdate(obs[o], muts)
     ELSE obs[o]]

\* history: the success/error callbacks of o's bundle that a log invokes
Fired(log, o) ==
  {log[i].ev : i \in {j \in 1..Len(log) :
                        log[j].obs = o /\ log[j].ev \in {"onSuccess", "onError"}}}

\* mutant: an observer that is bound keeps its Mutation
UpdateSharedMutationKeep(o, ob, muts, map) ==
  IF ~Truthy(ob.options.shareable)
  THEN [threw |-> FALSE, ob |-> ob, muts |-> muts]
  ELSE IF ob.options.mutationKey = NoKey
  THEN [threw |-> TRUE, ob |-> ob, muts |-> muts]
  ELSE LET found == map[HashMutationKey(ob.options.mutationKey)]
       IN IF ob.currentMutation # None
          THEN [threw |-> FALSE, ob |-> ob, muts |-> muts]
          ELSE LET muts1 == AddObserver(muts, found, o)
               IN [threw |-> FALSE,
                   ob |-> UpdateResult([ob EXCEPT !.currentMutation = found], muts1),
                   muts |-> muts1]

\* MutationObserver.updateSharedMutation
UpdateSharedMutation(o, ob, muts, map) ==
  IF ~Truthy(ob.options.shareable)
  THEN [threw |-> FALSE, ob |-> ob, muts |-> muts]
  ELSE IF ob.options.mutationKey = NoKey
  THEN [threw |-> TRUE, ob |-> ob, muts |-> muts]
  ELSE LET found == map[HashMutationKey(ob.options.mutationKey)]
       IN IF ob.currentMutation = found
          THEN [threw |-> FALSE, ob |-> ob, muts |-> muts]
          ELSE LET muts1 == AddObserver(RemoveObserver(muts, ob.currentMutation, o), found, o)
               IN [threw |-> FALSE,
                   ob |-> UpdateResult([ob EXCEPT !.currentMutation = found], muts1),
                   muts |-> muts1]

Op(op, obs, arg, ok) == [op |-> op, obs |-> obs, arg |-> arg, ok |-> ok]

\* ------------------------------------------------------------------- Init

Init ==
  /\ mutations = <<>>
  /\ mutationsMap = [h \in Hashes |-> None]
  /\ mutationId = 0
  /\ mutation = [m \in MutationIds |-> NoMutation]
  /\ observer = [o \in Observers |-> NoObserver]
  /\ chains = <<>>
  /\ last = Op("init", "-", 0, TRUE)
  /\ calls = <<>>
  /\ fired = [o \in Observers |-> {}]

\* new MutationObserver(client, options)
Construct(o, options) ==
  /\ ~observer[o].constructed
  /\ LET ob1 == [NoObserver EXCEPT !.options = DefaultMutationOptions(options)]
         r == UpdateSharedMutation(o, ob1, mutation, mutationsMap)
     IN IF r.threw
        THEN /\ UNCHANGED <<observer, mutation>>
             /\ last' = Op("construct", o, 0, FALSE)
        ELSE /\ observer' = [observer EXCEPT ![o] =
                               UpdateResult([r.ob EXCEPT !.constructed = TRUE], r.muts)]
             /\ mutation' = r.muts
             /\ last' = Op("construct", o, 0, TRUE)
  /\ calls' = <<>>
  /\ UNCHANGED <<mutations, mutationsMap, mutationId, chains, fired>>

\* MutationObserver.setOptions
SetOptionsThrows(prevOptions, options) == prevOptions.shareable # options.shareable

SetOptions(o, options) ==
  /\ observer[o].constructed
  /\ LET prevOptions == observer[o].options
         ob1 == [observer[o] EXCEPT !.options = DefaultMutationOptions(options)]
         r == UpdateSharedMutation(o, ob1, mutation, mutationsMap)
     IN IF SetOptionsThrows(prevOptions, options)
        THEN /\ observer' = [observer EXCEPT ![o] = ob1]
             /\ UNCHANGED mutation
             /\ last' = Op("setOptions", o, 0, FALSE)
        ELSE /\ observer' = [observer EXCEPT ![o] = r.ob]
             /\ mutation' = r.muts
             /\ last' = Op("setOptions", o, 0, ~r.threw)
  /\ calls' = <<>>
  /\ UNCHANGED <<mutations, mutationsMap, mutationId, chains, fired>>

\* Subscribable.subscribe
Subscribe(o) ==
  /\ observer[o].constructed
  /\ observer[o].listeners < MaxListeners
  /\ observer' = [observer EXCEPT ![o].listeners = @ + 1]
  /\ last' = Op("subscribe", o, 0, TRUE)
  /\ calls' = <<>>
  /\ UNCHANGED <<mutations, mutationsMap, mutationId, mutation, chains, fired>>

\* the unsubscribe function of Subscribable.subscribe, with
\* MutationObserver.onUnsubscribe
Unsubscribe(o) ==
  /\ observer[o].constructed
  /\ observer[o].listeners > 0
  /\ observer' = [observer EXCEPT ![o].listeners = @ - 1]
  /\ mutation' = IF observer[o].listeners = 1
                 THEN RemoveObserver(mutation, observer[o].currentMutation, o)
                 ELSE mutation
  /\ last' = Op("unsubscribe", o, 0, TRUE)
  /\ calls' = <<>>
  /\ UNCHANGED <<mutations, mutationsMap, mutationId, chains, fired>>

\* MutationObserver.reset
Reset(o) ==
  /\ observer[o].constructed
  /\ LET ob1 == UpdateResult([observer[o] EXCEPT !.currentMutation = None], mutation)
     IN /\ observer' = [observer EXCEPT ![o] = ob1]
        /\ calls' = Notify(o, ob1, ListenersOnly, 0)
  /\ last' = Op("reset", o, 0, TRUE)
  /\ UNCHANGED <<mutations, mutationsMap, mutationId, mutation, chains, fired>>

\* --------------------------------------------------------------- MutationCache

\* MutationCache.notify: the cache's listeners run inside one batch
CacheNotify(m, depth) ==
  Batch(depth, "cache", <<Call("cacheListener", "cache", m, depth + 1)>>)

\* MutationCache.build: the id of the Mutation it constructs (++this.mutationId)
NextMutationId(id) == id + 1

\* MutationCache.build: the hash of the Mutation it constructs
BuildHash(options) ==
  IF Truthy(options.shareable) /\ options.mutationKey # NoKey
  THEN HashMutationKey(options.mutationKey)
  ELSE None

\* mutant: the first Mutation built for a hash keeps the index entry
BuildIndexFirstWins(map, hash, id) ==
  IF hash # None /\ map[hash] = None THEN [map EXCEPT ![hash] = id] ELSE map

\* MutationCache.build: the hash index after the Mutation was added
BuildIndex(map, hash, id) ==
  IF hash # None THEN [map EXCEPT ![hash] = id] ELSE map

\* MutationCache.get
Get(map, hash) == map[hash]

\* partialMatchKey: the filter key is a prefix of the Mutation's key
PartialMatchKey(key, filterKey) ==
  /\ Len(filterKey) <= Len(key)
  /\ SubSeq(key, 1, Len(filterKey)) = filterKey

\* matchMutation: a filter without a key matches everything; with a key, an
\* exact filter wants equal key hashes, any other a key with that prefix
MatchMutation(filters, mut) ==
  IF filters.mutationKey = NoKey THEN TRUE
  ELSE IF mut.mutationKey = NoKey THEN FALSE
  ELSE IF Truthy(filters.exact)
       THEN HashMutationKey(mut.mutationKey) = HashMutationKey(filters.mutationKey)
       ELSE PartialMatchKey(mut.mutationKey, filters.mutationKey)

\* the filters a caller passes: a key or none, exact true, false or omitted
Filters == [mutationKey : Keys \cup {NoKey}, exact : {"true", "false", Undef}]

\* MutationCache.find: `if (typeof filters.exact === 'undefined') filters.exact = true`
FindDefaults(filters) ==
  [filters EXCEPT !.exact = IF @ = Undef THEN "true" ELSE @]

\* MutationCache.find: Array.prototype.find, None when nothing matches
Find(filters, ms, muts) ==
  LET found == SelectSeq(ms, LAMBDA x : MatchMutation(FindDefaults(filters), muts[x]))
  IN IF found = <<>> THEN None ELSE Head(found)

\* MutationCache.findAll
FindAll(filters, ms, muts) ==
  SelectSeq(ms, LAMBDA x : MatchMutation(filters, muts[x]))

\* find(filters) and findAll(filters) called on the cache as it is, each with
\* its own filters object of these values; last.obs holds the exact flag and
\* last.arg the hash of the filter key
FindAndFindAll(filters) ==
  /\ LET all == FindAll(filters, mutations, mutation)
     IN calls' = <<Call("find", "cache", Find(filters, mutations, mutation), 0)>>
                   \o [i \in 1..Len(all) |-> Call("findAll", "cache", all[i], 0)]
  /\ last' = Op("find", filters.exact, HashMutationKey(filters.mutationKey), TRUE)
  /\ UNCHANGED <<mutations, mutationsMap, mutationId, mutation, observer, chains, fired>>

\* Mutation.dispatch: the reducer, then the broadcast to the observers
Dispatch(m, type, before) ==
  LET muts1 == [mutation EXCEPT ![m].state = Reducer(@, type)]
  IN /\ mutation' = muts1
     /\ observer' = Delivered(observer, muts1, m)
     /\ calls' = before \o Broadcast(muts1[m].observers, observer, muts1, type, 0)
     /\ fired' = [o \in Observers |-> fired[o] \cup Fired(calls', o)]

\* MutationObserver.mutate, with MutationCache.build, MutationCache.add and
\* the synchronous start of Mutation.execute
Mutate(o, withBundle) ==
  /\ observer[o].constructed
  /\ mutationId < MaxMutations
  /\ LET id == NextMutationId(mutationId)
         options == observer[o].options
         hash == BuildHash(options)
         muts1 == RemoveObserver(mutation, observer[o].currentMutation, o)
         muts2 == [muts1 EXCEPT ![id] =
                     [state |-> Reducer(DefaultState, "loading"),
                      mutationHash |-> hash,
                      mutationKey |-> options.mutationKey,
                      observers |-> <<o>>, builtBy |-> o]]
         ob1 == [observer[o] EXCEPT
                   !.mutateOptions = IF withBundle THEN id ELSE None,
                   !.currentMutation = id]
         obs1 == [observer EXCEPT ![o] = ob1]
     IN /\ mutationId' = id
        /\ mutations' = Append(mutations, id)
        /\ mutationsMap' = BuildIndex(mutationsMap, hash, id)
        /\ mutation' = muts2
        /\ observer' = Delivered(obs1, muts2, id)
        /\ calls' = CacheNotify(id, 0) \o Broadcast(<<o>>, obs1, muts2, "loading", 0)
        /\ last' = Op("mutate", o, id, TRUE)
  /\ fired' = [fired EXCEPT ![o] = {}]
  /\ UNCHANGED chains

Built == 1..mutationId

\* the Mutation pauses its retries
Pause(m) ==
  /\ m \in Built
  /\ mutation[m].state.status = "loading"
  /\ ~mutation[m].state.isPaused
  /\ Dispatch(m, "pause", <<>>)
  /\ last' = Op("pause", "-", m, TRUE)
  /\ UNCHANGED <<mutations, mutationsMap, mutationId, chains>>

\* the Mutation's operation resolves
Succeed(m) ==
  /\ m \in Built
  /\ mutation[m].state.status = "loading"
  /\ ~mutation[m].state.isPaused
  /\ Dispatch(m, "success", <<>>)
  /\ last' = Op("success", "-", m, TRUE)
  /\ UNCHANGED <<mutations, mutationsMap, mutationId, chains>>

\* the Mutation's operation rejects
Fail(m) ==
  /\ m \in Built
  /\ mutation[m].state.status = "loading"
  /\ ~mutation[m].state.isPaused
  /\ Dispatch(m, "error", <<>>)
  /\ last' = Op("error", "-", m, TRUE)
  /\ UNCHANGED <<mutations, mutationsMap, mutationId, chains>>

\* Mutation.cancel: the Mutation leaves its pending retry; no event
Cancel(muts, m) == [muts EXCEPT ![m].state.isPaused = FALSE]

\* mutant: remove() leaves the hash index alone
RemoveIndexKeep(map, hash) == map

\* MutationCache.remove: the index after the removal of m
RemoveIndex(map, hash) ==
  IF hash # None THEN [map EXCEPT ![hash] = None] ELSE map

\* MutationCache.remove, as the cache after it
RemoveState(c, m) ==
  [mutations |-> SelectSeq(c.mutations, LAMBDA x : x # m),
   mutationsMap |-> RemoveIndex(c.mutationsMap, c.mutation[m].mutationHash),
   mutation |-> Cancel(c.mutation, m)]

\* MutationCache.remove, as the invocations it makes
RemoveCalls(m, depth) ==
  <<Call("detach", "cache", m, depth), Call("cancel", "cache", m, depth)>>
    \o CacheNotify(m, depth)

CacheState == [mutations |-> mutations, mutationsMap |-> mutationsMap,
               mutation |-> mutation]

Remove(m) ==
  /\ m \in Range(mutations)
  /\ LET c == RemoveState(CacheState, m)
     IN /\ mutations' = c.mutations
        /\ mutationsMap' = c.mutationsMap
        /\ mutation' = c.mutation
  /\ calls' = RemoveCalls(m, 0)
  /\ last' = Op("remove", "-", m, TRUE)
  /\ UNCHANGED <<mutationId, observer, chains, fired>>

RECURSIVE ClearState(_, _)
\* MutationCache.clear: forEach over the array as it was at the call
ClearState(c, ms) ==
  IF ms = <<>> THEN c ELSE ClearState(RemoveState(c, Head(ms)), Tail(ms))

RECURSIVE ClearEach(_, _)
ClearEach(ms, depth) ==
  IF ms = <<>> THEN <<>> ELSE RemoveCalls(Head(ms), depth) \o ClearEach(Tail(ms), depth)

\* mutant: clear() without its outer batch
ClearCallsUnbatched(ms, depth) == ClearEach(ms, depth)

\* MutationCache.clear, as the invocations it makes
ClearCalls(ms, depth) == Batch(depth, "clear", ClearEach(ms, depth + 1))

\* MutationCache.clear; inBatch: the caller holds a batch open around the call
Clear(inBatch) ==
  /\ LET c == ClearState(CacheState, mutations)
     IN /\ mutations' = c.mutations
        /\ mutationsMap' = c.mutationsMap
        /\ mutation' = c.mutation
  /\ calls' = IF inBatch THEN Batch(0, "caller", ClearCalls(mutations, 1))
              ELSE ClearCalls(mutations, 0)
  /\ last' = Op("clear", IF inBatch THEN "inBatch" ELSE "-", Len(mutations), TRUE)
  /\ UNCHANGED <<mutationId, observer, chains, fired>>

\* mutant: the rejection of continue() is not caught
CatchNoopRethrow(outcome) == outcome

\* noop of `.catch(noop)`: a rejected continue() becomes a fulfilled link
CatchNoop(outcome) == "resolved"

\* mutant: the snapshot takes every Mutation that is still loading
PausedMutationsLoading(ms, muts) ==
  SelectSeq(ms, LAMBDA x : muts[x].state.status = "loading")

\* MutationCache.resumePausedMutations: the snapshot and the promise chain
PausedMutations(ms, muts) == SelectSeq(ms, LAMBDA x : muts[x].state.isPaused)

ResumePausedMutations ==
  /\ Len(chains) < MaxChains
  /\ LET snap == PausedMutations(mutations, mutation)
     IN chains' = Append(chains,
                    [rest |-> snap, current |-> None,
                     outcome |-> IF snap = <<>> THEN "resolved" ELSE "pending"])
  /\ calls' = Batch(0, "cache", <<>>)
  /\ last' = Op("resume", "-", Len(chains) + 1, TRUE)
  /\ UNCHANGED <<mutations, mutationsMap, mutationId, mutation, observer, fired>>

\* Mutation.continue: a paused Mutation resumes and emits its continue event
ContinueMutation(m, before) ==
  IF mutation[m].state.isPaused
  THEN Dispatch(m, "continue", before)
  ELSE /\ calls' = before
       /\ UNCHANGED <<mutation, observer, fired>>

\* Mutation.continue called on a paused Mutation
Continue(m) ==
  /\ m \in Built
  /\ mutation[m].state.isPaused
  /\ ContinueMutation(m, <<>>)
  /\ last' = Op("continue", "-", m, TRUE)
  /\ UNCHANGED <<mutations, mutationsMap, mutationId, chains>>

\* the next link of a chain runs: `promise.then(() => mutation.continue()...)`
StartContinue(c) ==
  /\ c \in 1..Len(chains)
  /\ chains[c].outcome = "pending"
  /\ chains[c].current = None
  /\ chains[c].rest # <<>>
  /\ LET m == Head(chains[c].rest)
     IN /\ chains' = [chains EXCEPT ![c].rest = Tail(@), ![c].current = m]
        /\ ContinueMutation(m, <<Call("continue", "chain", m, c)>>)
        /\ last' = Op("startContinue", "-", m, TRUE)
  /\ UNCHANGED <<mutations, mutationsMap, mutationId>>

\* the promise of the running continue() settles with the Mutation's end
ContinueOutcome(state) == IF state.status = "success" THEN "resolved" ELSE "rejected"

\* what the chain does when a link settles: a rejected link skips the rest
ChainAfter(chain, raw) ==
  LET link == IF raw = "rejected" THEN CatchNoop(raw) ELSE raw
  IN [chain EXCEPT
        !.current = None,
        !.outcome = IF link = "rejected" THEN "rejected"
                    ELSE IF chain.rest = <<>> THEN "resolved"
                    ELSE "pending"]

SettleContinue(c) ==
  /\ c \in 1..Len(chains)
  /\ chains[c].current # None
  /\ LET m == chains[c].current
     IN /\ mutation[m].state.status \in {"success", "error"}
        /\ chains' = [chains EXCEPT ![c] = ChainAfter(@, ContinueOutcome(mutation[m].state))]
        /\ last' = Op("settle", "-", m, TRUE)
  /\ calls' = <<>>
  /\ UNCHANGED <<mutations, mutationsMap, mutationId, mutation, observer, fired>>

\* the operations of the observers in O, with options drawn from I and the
\* choice of passing a callback bundle to mutate() drawn from B
ObserverSteps(O, I, B) ==
  \/ \E o \in O, options \in I : Construct(o, options)
  \/ \E o \in O, options \in I : SetOptions(o, options)
  \/ \E o \in O : Reset(o)
  \/ \E o \in O, withBundle \in B : Mutate(o, withBundle)

ListenerSteps(O) ==
  \/ \E o \in O : Subscribe(o)
  \/ \E o \in O : Unsubscribe(o)

MutationSteps ==
  \/ \E m \in MutationIds : Pause(m)
  \/ \E m \in MutationIds : Continue(m)
  \/ \E m \in MutationIds : Succeed(m)
  \/ \E m \in MutationIds : Fail(m)

ChainSteps ==
  \/ ResumePausedMutations
  \/ \E c \in 1..MaxChains : StartContinue(c)
  \/ \E c \in 1..MaxChains : SettleContinue(c)

\* ---------------------------------------------------------- specifications

\* One shareable observer with its listeners, and the events of the Mutations
\* it built.
PipelineOptions == {[shareable |-> "true", mutationKey |-> <<1>>]}

Next ==
  \/ ObserverSteps({"o1"}, PipelineOptions, BOOLEAN)
  \/ ListenerSteps({"o1"})
  \/ MutationSteps

Spec == Init /\ [][Next]_vars

\* Two observers that meet through the hash index: o1 moves between two keys
\* and may lose its key, o2 stays on the first key.
ShareOptions ==
  {[shareable |-> "true", mutationKey |-> <<1>>],
   [shareable |-> "true", mutationKey |-> <<1, 2>>],
   [shareable |-> "true", mutationKey |-> NoKey],
   [shareable |-> "false", mutationKey |-> <<1>>]}

SameKeyOptions ==
  {[shareable |-> "true", mutationKey |-> <<1>>],
   [shareable |-> "false", mutationKey |-> <<1>>]}

NextShared ==
  \/ \E options \in ShareOptions : Construct("o1", options)
  \/ \E options \in ShareOptions : SetOptions("o1", options)
  \/ \E options \in SameKeyOptions : Construct("o2", options)
  \/ \E options \in SameKeyOptions : SetOptions("o2", options)
  \/ \E o \in Observers : Mutate(o, FALSE)
  \/ \E m \in MutationIds : Remove(m)

SpecShared == Init /\ [][NextShared]_vars

\* The Mutations one observer builds, and the chains of
\* resumePausedMutations().
NextResume ==
  \/ Construct("o1", NoOptions)
  \/ Mutate("o1", FALSE)
  \/ \E m \in MutationIds : Pause(m)
  \/ \E m \in MutationIds : Succeed(m)
  \/ \E m \in MutationIds : Fail(m)
  \/ ChainSteps

SpecResume == Init /\ [][NextResume]_vars

\* The links of a chain are promise reactions: the job queue runs each one
\* that is ready.
FairSpecResume ==
  /\ SpecResume
  /\ \A c \in 1..MaxChains : WF_vars(StartContinue(c)) /\ WF_vars(SettleContinue(c))

\* The Mutations one observer builds, and their removal from the cache.
NextClear ==
  \/ Construct("o1", NoOptions)
  \/ Mutate("o1", FALSE)
  \/ \E m \in MutationIds : Pause(m)
  \/ \E m \in MutationIds : Succeed(m)
  \/ \E m \in MutationIds : Fail(m)
  \/ \E m \in MutationIds : Remove(m)
  \/ \E inBatch \in BOOLEAN : Clear(inBatch)

SpecClear == Init /\ [][NextClear]_vars

\* One observer that builds hashed and unhashed Mutations under two keys, and
\* their removal from the cache, one by one and all at once.
NextIndex ==
  \/ \E options \in ShareOptions : Construct("o1", options)
  \/ \E options \in ShareOptions : SetOptions("o1", options)
  \/ Mutate("o1", FALSE)
  \/ \E m \in MutationIds : Remove(m)
  \/ \E inBatch \in BOOLEAN : Clear(inBatch)

SpecIndex == Init /\ [][NextIndex]_vars

\* One shareable observer that moves between two keys and passes callback
\* bundles to mutate(), and the end of the Mutations it built.
KeyOptions ==
  {[shareable |-> "true", mutationKey |-> <<1>>],
   [shareable |-> "true", mutationKey |-> <<1, 2>>]}

NextBundle ==
  \/ \E options \in KeyOptions : Construct("o1", options)
  \/ \E options \in KeyOptions : SetOptions("o1", options)
  \/ \E withBundle \in BOOLEAN : Mutate("o1", withBundle)
  \/ \E m \in MutationIds : Succeed(m)
  \/ \E m \in MutationIds : Fail(m)

SpecBundle == Init /\ [][NextBundle]_vars

\* One observer that builds Mutations with and without keys, their removal,
\* and the lookups by filter.
NextFind ==
  \/ \E options \in ShareOptions : Construct("o1", options)
  \/ \E options \in ShareOptions : SetOptions("o1", options)
  \/ Mutate("o1", FALSE)
  \/ \E m \in MutationIds : Remove(m)
  \/ \E filters \in Filters : FindAndFindAll(filters)

SpecFind == Init /\ [][NextFind]_vars

\* ------------------------------------------------------------------ claims

\* what the last operation invoked on behalf of observer o
ForObserver(log, o) == SelectSeq(log, LAMBDA e : e.obs = o)

Evs(log) == [i \in 1..Len(log) |-> <<log[i].ev, log[i].arg>>]

Count(log, ev) == Cardinality({i \in 1..Len(log) : log[i].ev = ev})

EventOps == {"mutate", "pause", "continue", "success", "error"}

EventType == IF last.op = "mutate" THEN "loading" ELSE last.op

ExpectedCalls(o, type) ==
  LET b == observer[o].mutateOptions
      scoped ==
        IF b = None THEN <<>>
        ELSE IF type = "success" THEN << <<"onSuccess", b>>, <<"onSettled", b>> >>
        ELSE IF type = "error" THEN << <<"onError", b>>, <<"onSettled", b>> >>
        ELSE <<>>
  IN scoped \o [i \in 1..observer[o].listeners |-> <<"listener", i>>]

\* C1: an event of a Mutation makes each of its observers invoke, in this
\* order, onSuccess then onSettled (success event) or onError then onSettled
\* (error event) of its bundle, then every generic listener; on any other
\* event only the generic listeners; observers of other Mutations invoke
\* nothing.
C1_CallbackOrder ==
  last.op \in EventOps =>
    \A o \in Observers :
      Evs(ForObserver(calls, o)) =
        IF o \in Range(mutation[last.arg].observers)
        THEN ExpectedCalls(o, EventType)
        ELSE <<>>

C1_Witness ==
  /\ last.op = "success"
  /\ observer["o1"].mutateOptions = last.arg
  /\ observer["o1"].listeners = 2
  /\ Evs(ForObserver(calls, "o1")) =
       << <<"onSuccess", last.arg>>, <<"onSettled", last.arg>>,
          <<"listener", 1>>, <<"listener", 2>> >>

\* C2: the onSuccess and the onError callback of one mutate() call are never
\* both invoked.
C2_NeverBoth ==
  \A o \in Observers : fired[o] # {"onSuccess", "onError"}

IdleView ==
  [status |-> "idle", isPaused |-> FALSE, isLoading |-> FALSE,
   isSuccess |-> FALSE, isError |-> FALSE, isIdle |-> TRUE]

\* C10: reset() invokes no onSuccess, onError or onSettled callback, invokes
\* each generic listener once, and leaves the default idle view as the
\* current result.
C10_ResetListenersOnly ==
  last.op = "reset" =>
    /\ \A i \in 1..Len(calls) : calls[i].ev \notin {"onSuccess", "onError", "onSettled"}
    /\ Evs(ForObserver(calls, last.obs)) =
         [i \in 1..observer[last.obs].listeners |-> <<"listener", i>>]
    /\ observer[last.obs].currentResult = IdleView

C10_Witness ==
  /\ last.op = "reset"
  /\ observer["o1"].listeners = 2
  /\ observer["o1"].mutateOptions # None
  /\ mutation[observer["o1"].mutateOptions].state.status = "error"
  /\ "o1" \in Range(mutation[observer["o1"].mutateOptions].observers)
  /\ Count(calls, "listener") = 2

KeyHash(o) == HashMutationKey(observer[o].options.mutationKey)

Hashed(o) ==
  Truthy(observer[o].options.shareable) /\ observer[o].options.mutationKey # NoKey

\* C3: mutate() builds a Mutation whose id is greater than every id assigned
\* before and which was not in the cache, binds the observer to it, and, for
\* a shareable observer with a key, makes cache.get(hash) return it.
C3_FreshMutation ==
  [][last'.op = "mutate" =>
       /\ last'.arg > mutationId
       /\ last'.arg \notin Range(mutations)
       /\ mutations' = Append(mutations, last'.arg)
       /\ observer'[last'.obs].currentMutation = last'.arg
       /\ (Hashed(last.obs))' =>
            Get(mutationsMap', (KeyHash(last.obs))') = last'.arg]_vars

C3_Witness ==
  /\ last.op = "mutate"
  /\ last.arg = 2
  /\ Hashed(last.obs)
  /\ 1 \in Range(mutations)
  /\ mutation[1].mutationHash = KeyHash(last.obs)
  /\ Get(mutationsMap, KeyHash(last.obs)) = 2

Resolved == last.op \in {"construct", "setOptions"} /\ last.ok

\* C4: when the constructor or setOptions() of a shareable observer returns,
\* the observer references what cache.get(hash of its key) returns, a Mutation
\* or none; two observers with the same key that resolve one right after the
\* other reference the same Mutation.
C4_BoundToIndexed ==
  [][/\ (Resolved /\ Truthy(observer[last.obs].options.shareable))' =>
          /\ (Hashed(last.obs))'
          /\ observer'[last'.obs].currentMutation = Get(mutationsMap', (KeyHash(last.obs))')
     /\ (/\ Resolved /\ Resolved' /\ last.obs # last'.obs
         /\ Hashed(last.obs) /\ (Hashed(last.obs))'
         /\ observer'[last.obs].options = observer'[last'.obs].options) =>
          observer'[last.obs].currentMutation = observer'[last'.obs].currentMutation]_vars

C4_Witness ==
  /\ Resolved
  /\ observer["o1"].currentMutation # None
  /\ observer["o1"].currentMutation = observer["o2"].currentMutation
  /\ Hashed("o1") /\ Hashed("o2")
  /\ observer["o1"].options = observer["o2"].options

\* C5: an observer with shareable = false is bound only to a Mutation its own
\* mutate() built, which is not in the hash index and to which no other
\* observer is bound.
C5_NonShareablePrivate ==
  \A o \in Observers :
    (/\ observer[o].constructed
     /\ ~Truthy(observer[o].options.shareable)
     /\ observer[o].currentMutation # None) =>
      LET m == observer[o].currentMutation
      IN /\ mutation[m].builtBy = o
         /\ mutation[m].mutationHash = None
         /\ \A h \in Hashes : Get(mutationsMap, h) # m
         /\ \A p \in Observers \ {o} : observer[p].currentMutation # m

\* C6: the effective shareable flag of a constructed observer never changes,
\* whatever setOptions() calls follow, failed ones included.
C6_ShareableFixed ==
  [][\A o \in Observers :
       observer[o].constructed =>
         observer'[o].options.shareable = observer[o].options.shareable]_vars

NoDuplicates(seq) == \A i, j \in 1..Len(seq) : seq[i] = seq[j] => i = j

\* C7: a call of resumePausedMutations() snapshots the Mutations that are
\* paused, in insertion order; its chain calls continue() on them once each in
\* that order, starts one only when the one before it has settled, and goes on
\* past a rejected one.
C7_SequentialResume ==
  [][/\ last'.op = "resume" =>
          /\ Len(chains') = Len(chains) + 1
          /\ chains'[Len(chains')].rest =
               SelectSeq(mutations, LAMBDA x : mutation[x].state.isPaused)
          /\ NoDuplicates(chains'[Len(chains')].rest)
          /\ chains'[Len(chains')].current = None
     /\ last'.op = "startContinue" =>
          \E c \in 1..Len(chains) :
            /\ chains[c].current = None
            /\ chains[c].rest # <<>>
            /\ last'.arg = Head(chains[c].rest)
            /\ chains'[c].current = last'.arg
            /\ chains'[c].rest = Tail(chains[c].rest)
            /\ \A d \in 1..Len(chains) : d # c => chains'[d] = chains[d]
     /\ \A c \in 1..Len(chains') :
          (chains'[c].outcome = "pending") =
            (chains'[c].current # None \/ chains'[c].rest # <<>>)]_vars

\* the only chain's continue() has just rejected and the chain goes on
C7_Witness ==
  /\ last.op = "settle"
  /\ mutation[last.arg].state.status = "error"
  /\ Len(chains) = 1
  /\ chains[1].outcome = "pending"
  /\ chains[1].rest # <<>>
  /\ ENABLED StartContinue(1)

Exists(c) == c <= Len(chains)
Running(c) == Exists(c) /\ chains[c].current # None
Settled(c) == Exists(c) /\ chains[c].outcome = "resolved"

\* C8: the outcome of resumePausedMutations() never rejects, resolves only
\* when every continue() of its snapshot has been called and has settled, and
\* does resolve if every continue() its chain starts settles.
C8_ResumeNeverRejects ==
  /\ [](\A c \in 1..Len(chains) :
          /\ chains[c].outcome # "rejected"
          /\ chains[c].outcome = "resolved" =>
               (chains[c].current = None /\ chains[c].rest = <<>>))
  /\ \A c \in 1..MaxChains :
       ([]<>~Running(c)) => (Exists(c) ~> Settled(c))

\* the last continue() of the only chain has just rejected: the chain resolved
C8_Witness ==
  /\ last.op = "settle"
  /\ mutation[last.arg].state.status = "error"
  /\ Len(chains) = 1
  /\ chains[1].outcome = "resolved"

Flushes(log, owners) ==
  Cardinality({i \in 1..Len(log) : log[i].ev = "flush" /\ log[i].obs \in owners})

\* C9: clear() over N >= 1 Mutations outside a batch removes and announces
\* all N at a batch depth above zero and flushes once, at the end; inside an
\* open batch it flushes nothing itself.
C9_ClearOneFlush ==
  (last.op = "clear" /\ last.arg >= 1) =>
    /\ Count(calls, "detach") = last.arg
    /\ Count(calls, "cacheListener") = last.arg
    /\ \A i \in 1..Len(calls) : calls[i].ev # "flush" => calls[i].depth > 0
    /\ last.obs = "-" =>
         /\ Count(calls, "flush") = 1
         /\ calls[Len(calls)] = Call("flush", "clear", 0, 0)
    /\ last.obs = "inBatch" => Flushes(calls, {"clear", "cache"}) = 0

C9_Witness ==
  /\ last.op = "clear"
  /\ last.obs = "-"
  /\ last.arg = 2
  /\ Count(calls, "flush") = 1

Bound(o) == observer[o].currentMutation # None

\* C11: after reset() on an observer that was bound to a Mutation M, the
\* observer is not in M's observer set, so that a later event of M invokes
\* nothing on this observer.
C11_ResetDetaches ==
  [][/\ (last'.op = "reset" /\ Bound(last'.obs)) =>
          last'.obs \notin Range(mutation'[observer[last'.obs].currentMutation].observers)
     /\ (last.op = "reset" /\ last'.op \in EventOps \ {"mutate"}) =>
          ForObserver(calls', last.obs) = <<>>]_vars

\* C12: an observer that references a Mutation is in that Mutation's observer
\* set.
C12_BoundIsRegistered ==
  \A o \in Observers :
    Bound(o) => o \in Range(mutation[observer[o].currentMutation].observers)

\* C17: the current result of an observer is the derived view of the present
\* state of the Mutation it references, or the idle view if it references
\* none, with exactly one of the four status flags set.
C17_ResultIsCurrent ==
  \A o \in Observers :
    observer[o].constructed =>
      LET r == observer[o].currentResult
      IN /\ r = IF Bound(o)
                THEN DerivedResult(mutation[observer[o].currentMutation].state)
                ELSE IdleView
         /\ Cardinality({f \in {"isIdle", "isLoading", "isSuccess", "isError"} : r[f]}) = 1

\* C13: every Mutation in the hash index is in the ordered collection and is
\* stored under its own hash; the ordered collection is in strictly
\* increasing id order.
C13_IndexWithinCollection ==
  /\ \A h \in Hashes :
       Get(mutationsMap, h) # None =>
         /\ Get(mutationsMap, h) \in Range(mutations)
         /\ mutation[Get(mutationsMap, h)].mutationHash = h
  /\ \A i, j \in 1..Len(mutations) : i < j => mutations[i] < mutations[j]

\* a hashed Mutation was removed while another hashed one stays indexed
C13_Witness ==
  /\ last.op = "remove"
  /\ mutation[last.arg].mutationHash # None
  /\ \E h \in Hashes : Get(mutationsMap, h) \in Range(mutations)

\* C14: build() with shareable = true and no key fails, adds nothing to the
\* ordered collection or the hash index and consumes no id.
C14_BuildNeedsKey ==
  [][(/\ last'.op = "mutate"
      /\ Truthy(observer[last'.obs].options.shareable)
      /\ observer[last'.obs].options.mutationKey = NoKey) =>
       /\ ~last'.ok
       /\ UNCHANGED <<mutations, mutationsMap, mutationId>>]_vars

Position(log, ev, m) ==
  {i \in 1..Len(log) : log[i].ev = ev /\ log[i].arg = m}

\* C15: remove(m) calls m.cancel() before it detaches m from the ordered
\* collection and the hash index, and notifies the cache listeners after the
\* detachment.
C15_CancelBeforeDetach ==
  last.op = "remove" =>
    \E i \in Position(calls, "cancel", last.arg),
       j \in Position(calls, "detach", last.arg),
       k \in Position(calls, "cacheListener", last.arg) : i < j /\ j < k

LiveWithHash(h) == {m \in Range(mutations) : mutation[m].mutationHash = h}

Latest(S) == CHOOSE m \in S : \A n \in S : n <= m

\* C19: whenever some live Mutation has hash h, cache.get(h) returns the most
\* recently built live Mutation with hash h; remove(A) leaves the entry of a
\* later Mutation B with the same hash in place.
C19_RemoveKeepsOthers ==
  \A h \in Hashes :
    LiveWithHash(h) # {} => Get(mutationsMap, h) = Latest(LiveWithHash(h))

ScopedCallbacks == {"onSuccess", "onError", "onSettled"}

\* C16: the callback bundle passed to a mutate() call is invoked only for the
\* success or error event of the Mutation that this call built.
C16_BundleOfItsMutation ==
  \A i \in 1..Len(calls) :
    calls[i].ev \in ScopedCallbacks =>
      /\ last.op \in {"success", "error"}
      /\ calls[i].arg = last.arg

Results(log, ev) ==
  LET sel == SelectSeq(log, LAMBDA e : e.ev = ev)
  IN [i \in 1..Len(sel) |-> sel[i].arg]

\* C18: for the same filter values find() returns the first element of what
\* findAll() returns, and nothing when findAll() returns nothing; with a key
\* and the exact flag omitted both match only the Mutations whose key equals
\* the filter key.
C18_FindIsFirstOfFindAll ==
  last.op = "find" =>
    LET all == Results(calls, "findAll")
        found == Results(calls, "find")[1]
    IN /\ found = IF all = <<>> THEN None ELSE all[1]
       /\ (last.obs = Undef /\ last.arg # HashMutationKey(NoKey)) =>
            \A i \in 1..Len(all) :
              HashMutationKey(mutation[all[i]].mutationKey) = last.arg

\* C20: over all the chains of resumePausedMutations(), at most one
\* continue() that a chain started is unsettled at any time.
C20_OneContinueAtATime ==
  Cardinality({c \in 1..Len(chains) : Running(c)}) <= 1

====
